---- MODULE Spec2Model ----
(***************************************************************************)
(* Model of src/commands/start.js (haul): the `start` command, which       *)
(* launches the webpack development server, and its CLI option table.      *)
(*                                                                         *)
(* The launcher is modelled with JavaScript's run-to-completion semantics: *)
(* an action is the code that runs between two returns to the event loop.  *)
(* Everything start() does to the outside world is appended to `effects`,  *)
(* in program order.                                                       *)
(***************************************************************************)
EXTENDS Integers, Sequences, FiniteSets, TLC

VARIABLES
    cwd,        \* process.cwd()
    files,      \* the paths for which fs.existsSync answers true
    opts,       \* the argument of start(): host, port, dev, minify, platform
    rnResult,   \* what makeReactNativeConfig returns: [configs, platforms]
    throwsAt,   \* the collaborator that throws in this run, or "none"
    pc,         \* where start() is: ready, awaitExec, returned, threw
    promise,    \* the promise start() returned: none, pending, fulfilled, rejected
    error,      \* the rejection reason of that promise
    config,     \* the local `config` of start(), after the platform filter
    adb,        \* the local `adb` of start() (path segments), <<>> before line 83
    effects,    \* every external call made so far, in order
    listening,  \* the listen callback has fired
    builds,     \* number of build callbacks the server has invoked
    execResult, \* the exec promise: none, pending, ok, failed
    lastEvent,  \* the event the event loop delivered last, with its argument
    argv,       \* option table: the raw strings given on the command line
    flags,      \* option table: the options resolved so far
    raws,       \* option table: the string handed to each option's parse
    optIdx      \* option table: index of the next option to resolve

launchVars == <<cwd, files, opts, rnResult, throwsAt, pc, promise, error,
                config, adb, effects, listening, builds, execResult, lastEvent>>
optionVars == <<argv, flags, raws, optIdx>>
vars == <<cwd, files, opts, rnResult, throwsAt, pc, promise, error,
          config, adb, effects, listening, builds, execResult, lastEvent,
          argv, flags, raws, optIdx>>

(***************************************************************************)
(* Bounds of the model.                                                    *)
(***************************************************************************)
\* Longest platform list makeReactNativeConfig returns.
MaxPlatforms == 2
\* Number of build callbacks the server invokes in one run.
MaxBuilds == 2

(***************************************************************************)
(* Input domains.                                                          *)
(***************************************************************************)
\* The host, port, dev and minify a run is started with: the defaults of the
\* option table, and two runs that differ from them in every option.
Requests ==
    { [host |-> "127.0.0.1", port |-> 8081, dev |-> TRUE, minify |-> FALSE],
      [host |-> "0.0.0.0", port |-> 3000, dev |-> FALSE, minify |-> TRUE],
      [host |-> "0.0.0.0", port |-> 3000, dev |-> FALSE, minify |-> FALSE] }
\* The choices of --platform.
RequestedPlatforms == {"ios", "android", "all"}
\* Identifiers a platform list may hold.
PlatformIds == {"ios", "android"}
\* How the configurations name their entry: one entry shared by all of
\* them, or one entry per configuration.
EntrySchemes == {"shared", "perConfig"}
Directories == {"/app", "/srv"}
\* ANDROID_HOME as path segments; <<>> is unset (or empty, equally falsy).
AndroidHomes == {<<>>, <<"", "opt", "sdk">>}
Collaborators == {"require", "makeReactNativeConfig", "webpack", "createServer"}

ConfigFileName == "webpack.haul.js"

\* path.join(directory, name)
PathJoin(directory, name) == directory \o "/" \o name

RECURSIVE JoinSegments(_)
\* The segments of a path joined by "/".
JoinSegments(segs) ==
    IF Len(segs) = 0 THEN ""
    ELSE IF Len(segs) = 1 THEN segs[1]
    ELSE segs[1] \o "/" \o JoinSegments(Tail(segs))

\* path.basename(p)
Basename(segs) == segs[Len(segs)]

(***************************************************************************)
(* Values and external calls.                                              *)
(***************************************************************************)
\* A JavaScript value that is either an array of configurations or one
\* configuration object; isArray is what Array.isArray answers for it.
ArrayValue(items) == [isArray |-> TRUE, value |-> items]
ObjectValue(obj) == [isArray |-> FALSE, value |-> obj]
Undefined == [isArray |-> FALSE, value |-> "undefined"]

NoError == [type |-> "none", name |-> "", directory |-> ""]
\* new MessageError(messages.webpackConfigNotFound({ directory }))
ConfigNotFoundError(directory) ==
    [type |-> "MessageError", name |-> "webpackConfigNotFound",
     directory |-> directory]
\* An error thrown by a collaborator, propagated as it is.
CollaboratorError(who) == [type |-> "Error", name |-> who, directory |-> ""]

RequireCall(path) == [kind |-> "require", path |-> path]
TransformCall(root, dev, minify) ==
    [kind |-> "makeReactNativeConfig", root |-> root, dev |-> dev,
     minify |-> minify]
ClearCall == [kind |-> "clear"]
WebpackCall(cfg) == [kind |-> "webpack", config |-> cfg]
CreateServerCall == [kind |-> "createServer"]
ExecCall(command) == [kind |-> "exec", command |-> command]
ListenCall(port, host) == [kind |-> "listen", port |-> port, host |-> host]
LogCall(level, name, data) ==
    [kind |-> "log", level |-> level, name |-> name, data |-> data]

(***************************************************************************)
(* makeReactNativeConfig is not part of this file.  Its contract: N build  *)
(* configurations and N platform identifiers, order-aligned.               *)
(***************************************************************************)
PlatformConfig(scheme, i) ==
    [entry |-> IF scheme = "shared" THEN "./index.js"
               ELSE "./index." \o ToString(i) \o ".js"]
RnResults ==
    UNION { { [configs |-> [i \in 1..n |-> PlatformConfig(scheme, i)],
               platforms |-> p] :
                scheme \in EntrySchemes, p \in [1..n -> PlatformIds] } :
            n \in 0..MaxPlatforms }

(***************************************************************************)
(* start(), lines 24-115.                                                  *)
(***************************************************************************)
\* const configPath = path.join(directory, 'webpack.haul.js')
ConfigPath == PathJoin(cwd, ConfigFileName)

\* Mutant: the existence check is left out.
ConfigFoundUnchecked == TRUE

\* fs.existsSync(configPath)
ConfigFound == ConfigPath \in files

\* platforms.includes(platform)
Includes(seq, x) == \E i \in DOMAIN seq : seq[i] = x

\* platforms.indexOf(platform), as a position of the 1-based sequence;
\* only used where Includes holds.
IndexOf(seq, x) ==
    CHOOSE i \in DOMAIN seq :
        seq[i] = x /\ \A j \in DOMAIN seq : seq[j] = x => i <= j

\* Mutant: the platform filter is left out.
SelectConfigNoFilter(platform, configs, platforms) == ArrayValue(configs)

\* Mutant: a platform that is not in the list selects the first configuration.
SelectConfigFirstOnMiss(platform, configs, platforms) ==
    IF platform # "all" /\ Includes(platforms, platform)
    THEN ObjectValue(configs[IndexOf(platforms, platform)])
    ELSE IF platform # "all" /\ configs # <<>> THEN ObjectValue(configs[1])
    ELSE ArrayValue(configs)

\* Lines 47-49: the platform filter.
SelectConfig(platform, configs, platforms) ==
    IF platform # "all" /\ Includes(platforms, platform)
    THEN ObjectValue(configs[IndexOf(platforms, platform)])
    ELSE ArrayValue(configs)

\* Mutant: the command runs for every platform but ios.
NeedsAdbReverseNotIos(platform) == platform # "ios"

\* Line 81: opts.platform === 'android'
NeedsAdbReverse(platform) == platform = "android"

\* Mutant: the device side of the forward is the default port.
AdbArgsDefaultPort(port) == "reverse tcp:" \o ToString(port) \o " tcp:8081"

\* Line 82: `reverse tcp:${opts.port} tcp:${opts.port}`
AdbArgs(port) ==
    "reverse tcp:" \o ToString(port) \o " tcp:" \o ToString(port)

\* Lines 83-85: the adb binary, as path segments.
AdbPath(androidHome) ==
    IF androidHome # <<>> THEN androidHome \o <<"platform-tools", "adb">>
    ELSE <<"adb">>

\* Mutant: [config.entry] whatever config is.
StartupEntriesUnmapped(cfg) ==
    IF cfg.isArray THEN <<"undefined">> ELSE <<cfg.value.entry>>

\* Lines 107-109: the entries of the startup summary.
StartupEntries(cfg) ==
    IF cfg.isArray THEN [i \in DOMAIN cfg.value |-> cfg.value[i].entry]
    ELSE <<cfg.value.entry>>

\* Mutant: start() returns a promise that waits for the listen callback.
PromiseOnReturnPending == "pending"

\* The state of the promise of an async function whose body has returned.
PromiseOnReturn == "fulfilled"

\* Calls made by lines 37-53 when nothing throws.
CallsToWebpack(cfg) ==
    << RequireCall(ConfigPath),
       TransformCall(cwd, opts.dev, opts.minify),
       ClearCall,
       WebpackCall(cfg) >>

\* The calls made up to and including the call of the collaborator `who`.
CallsUpTo(who, cfg) ==
    IF who = "require" THEN SubSeq(CallsToWebpack(cfg), 1, 1)
    ELSE IF who = "makeReactNativeConfig" THEN SubSeq(CallsToWebpack(cfg), 1, 2)
    ELSE IF who = "webpack" THEN CallsToWebpack(cfg)
    ELSE CallsToWebpack(cfg) \o <<CreateServerCall>>

launchInputs == <<cwd, files, opts, rnResult, throwsAt>>

Event(kind, arg) == [kind |-> kind, arg |-> arg]

\* Lines 28-34: the configuration file is missing.
StartConfigNotFound ==
    /\ pc = "ready"
    /\ ~ConfigFound
    /\ pc' = "threw"
    /\ promise' = "rejected"
    /\ error' = ConfigNotFoundError(cwd)
    /\ lastEvent' = Event("start", opts.platform)
    /\ UNCHANGED <<launchInputs, config, adb, effects, listening, builds,
                   execResult>>

\* Lines 37-78 with a collaborator throwing: the error leaves start().
StartThrows ==
    /\ pc = "ready"
    /\ ConfigFound
    /\ throwsAt # "none"
    /\ LET selected == SelectConfig(opts.platform, rnResult.configs,
                                    rnResult.platforms)
           reached == throwsAt \in {"webpack", "createServer"}
       IN /\ config' = IF reached THEN selected ELSE config
          /\ effects' = effects \o CallsUpTo(throwsAt, selected)
    /\ pc' = "threw"
    /\ promise' = "rejected"
    /\ error' = CollaboratorError(throwsAt)
    /\ lastEvent' = Event("start", opts.platform)
    /\ UNCHANGED <<launchInputs, adb, listening, builds, execResult>>

\* Lines 25-88 for android: runs up to the await of exec.
StartAndroid ==
    /\ pc = "ready"
    /\ ConfigFound
    /\ throwsAt = "none"
    /\ NeedsAdbReverse(opts.platform)
    /\ \E androidHome \in AndroidHomes :
         LET selected == SelectConfig(opts.platform, rnResult.configs,
                                      rnResult.platforms)
             bin == AdbPath(androidHome)
         IN /\ config' = selected
            /\ adb' = bin
            /\ effects' = effects \o CallsUpTo("createServer", selected)
                 \o <<ExecCall(JoinSegments(bin) \o " " \o AdbArgs(opts.port))>>
    /\ pc' = "awaitExec"
    /\ promise' = "pending"
    /\ execResult' = "pending"
    /\ lastEvent' = Event("start", opts.platform)
    /\ UNCHANGED <<launchInputs, error, listening, builds>>

\* Lines 25-115 for any other platform: runs to the end of start().
StartOther ==
    /\ pc = "ready"
    /\ ConfigFound
    /\ throwsAt = "none"
    /\ ~NeedsAdbReverse(opts.platform)
    /\ LET selected == SelectConfig(opts.platform, rnResult.configs,
                                    rnResult.platforms)
       IN /\ config' = selected
          /\ effects' = effects \o CallsUpTo("createServer", selected)
               \o <<ListenCall(opts.port, opts.host)>>
    /\ pc' = "returned"
    /\ promise' = PromiseOnReturn
    /\ lastEvent' = Event("start", opts.platform)
    /\ UNCHANGED <<launchInputs, error, adb, listening, builds, execResult>>

\* Mutant: no try/catch around the await: a failure leaves start().
ExecSettledRethrows(ok) ==
    /\ pc = "awaitExec"
    /\ LET command == Basename(adb) \o " " \o AdbArgs(opts.port)
       IN effects' =
            IF ok
            THEN effects \o << LogCall("info", "commandSuccess", command),
                               ListenCall(opts.port, opts.host) >>
            ELSE effects
    /\ pc' = IF ok THEN "returned" ELSE "threw"
    /\ promise' = IF ok THEN "fulfilled" ELSE "rejected"
    /\ error' = IF ok THEN error ELSE CollaboratorError("exec")
    /\ execResult' = IF ok THEN "ok" ELSE "failed"
    /\ lastEvent' = Event("execSettled", ok)
    /\ UNCHANGED <<launchInputs, config, adb, listening, builds>>

\* Lines 88-104: exec has settled; the result is logged and listen is called.
ExecSettled(ok) ==
    /\ pc = "awaitExec"
    /\ LET command == Basename(adb) \o " " \o AdbArgs(opts.port)
           report == IF ok THEN LogCall("info", "commandSuccess", command)
                     ELSE LogCall("warn", "commandFailed", command)
       IN effects' = effects \o <<report, ListenCall(opts.port, opts.host)>>
    /\ pc' = "returned"
    /\ promise' = PromiseOnReturn
    /\ execResult' = IF ok THEN "ok" ELSE "failed"
    /\ lastEvent' = Event("execSettled", ok)
    /\ UNCHANGED <<launchInputs, error, config, adb, listening, builds>>

\* Lines 104-114: the callback given to app.listen.
ListenCallback ==
    /\ pc = "returned"
    /\ ~listening
    /\ listening' = TRUE
    /\ effects' = effects \o
         <<LogCall("info", "initialStartInformation",
                   [entries |-> StartupEntries(config), host |-> opts.host,
                    port |-> opts.port])>>
    /\ lastEvent' = Event("listening", opts.port)
    /\ UNCHANGED <<launchInputs, pc, promise, error, config, adb, builds,
                   execResult>>

\* The server exists from createServer on, and its compiler is watching.
ServerRunning == pc \in {"awaitExec", "returned"}

\* Mutant: the build-start callback does not clear the console.
OnBuildStartNoClear(didHaveIssues) ==
    /\ ServerRunning
    /\ builds < MaxBuilds
    /\ builds' = builds + 1
    /\ effects' = effects \o
         << IF didHaveIssues
            THEN LogCall("warn", "bundleBuilding", didHaveIssues)
            ELSE LogCall("info", "bundleBuilding", didHaveIssues) >>
    /\ lastEvent' = Event("buildStart", didHaveIssues)
    /\ UNCHANGED <<launchInputs, pc, promise, error, config, adb, listening,
                   execResult>>

\* Lines 57-64: the build-start callback.
OnBuildStart(didHaveIssues) ==
    /\ ServerRunning
    /\ builds < MaxBuilds
    /\ builds' = builds + 1
    /\ effects' = effects \o
         << ClearCall,
            IF didHaveIssues
            THEN LogCall("warn", "bundleBuilding", didHaveIssues)
            ELSE LogCall("info", "bundleBuilding", didHaveIssues) >>
    /\ lastEvent' = Event("buildStart", didHaveIssues)
    /\ UNCHANGED <<launchInputs, pc, promise, error, config, adb, listening,
                   execResult>>

\* Lines 65-77: the build-complete callback.
OnBuildComplete(hasErrors) ==
    /\ ServerRunning
    /\ builds < MaxBuilds
    /\ builds' = builds + 1
    /\ effects' = effects \o
         << ClearCall,
            IF hasErrors
            THEN LogCall("error", "bundleFailed", "")
            ELSE LogCall("done", "bundleBuilt", opts.platform) >>
    /\ lastEvent' = Event("buildComplete", hasErrors)
    /\ UNCHANGED <<launchInputs, pc, promise, error, config, adb, listening,
                   execResult>>

LaunchOptions ==
    { [host |-> r.host, port |-> r.port, dev |-> r.dev, minify |-> r.minify,
       platform |-> p] :
        r \in Requests, p \in RequestedPlatforms }

(***************************************************************************)
(* The option table, lines 121-187.  The command-line layer that walks the *)
(* table is not part of this file: it resolves the options in the order of *)
(* the table, takes the default of an option that was not given (calling a *)
(* default that is a function with the options resolved so far) and hands  *)
(* the string to the option's parse.                                       *)
(***************************************************************************)
NotGiven == "<not given>"
OptionNames == <<"host", "port", "dev", "minify", "platform">>

\* String(b) of a boolean.
StringOfBoolean(b) == IF b THEN "true" ELSE "false"

\* Number(val), on the port strings of the model.
NumberOf(val) ==
    CASE val = "8081" -> 8081
      [] val = "3000" -> 3000
      [] val = "" -> 0
      [] OTHER -> "NaN"

\* Line 138: parse of --dev.
DevParse(val) == val # "false"

\* Line 154: parse of --minify.
MinifyParse(val) == val # "false"

\* Mutant: the negation is left out.
MinifyDefaultSameAsDev(resolved) == StringOfBoolean(resolved.dev)

\* Line 153: default of --minify, ({ dev }) => String(!dev).
MinifyDefault(resolved) == StringOfBoolean(~resolved.dev)

\* The `default` of each option (platform is required and has none).
DefaultOf(name, resolved) ==
    CASE name = "host" -> "127.0.0.1"
      [] name = "port" -> "8081"
      [] name = "dev" -> "true"
      [] name = "minify" -> MinifyDefault(resolved)
      [] OTHER -> NotGiven

\* The `parse` of each option.
ParseOf(name, val) ==
    CASE name = "host" -> val
      [] name = "port" -> NumberOf(val)
      [] name = "dev" -> DevParse(val)
      [] name = "minify" -> MinifyParse(val)
      [] OTHER -> val

Argvs ==
    [host : {NotGiven, "0.0.0.0"},
     port : {NotGiven, "3000", "80a"},
     dev : {NotGiven, "true", "false", "yes"},
     minify : {NotGiven, "true", "false"},
     platform : {"ios", "android", "all"}]

NoFlags == [n \in {"host", "port", "dev", "minify", "platform"} |-> NotGiven]

\* The command-line layer resolves the next option of the table.
ResolveOption ==
    /\ optIdx \in DOMAIN OptionNames
    /\ LET name == OptionNames[optIdx]
           raw == IF argv[name] # NotGiven THEN argv[name]
                  ELSE DefaultOf(name, flags)
       IN /\ raws' = [raws EXCEPT ![name] = raw]
          /\ flags' = [flags EXCEPT ![name] = ParseOf(name, raw)]
    /\ optIdx' = optIdx + 1
    /\ UNCHANGED argv

Init ==
    /\ cwd \in Directories
    /\ files \in {{}, {PathJoin("/app", ConfigFileName)}}
    /\ opts \in LaunchOptions
    /\ rnResult \in RnResults
    /\ throwsAt \in Collaborators \cup {"none"}
    /\ pc = "ready"
    /\ promise = "none"
    /\ error = NoError
    /\ config = Undefined
    /\ adb = <<>>
    /\ effects = <<>>
    /\ listening = FALSE
    /\ builds = 0
    /\ execResult = "none"
    /\ lastEvent = Event("none", "")
    /\ argv = NoFlags
    /\ flags = NoFlags
    /\ raws = NoFlags
    /\ optIdx = 0

Next ==
    \/ StartConfigNotFound /\ UNCHANGED optionVars
    \/ StartThrows /\ UNCHANGED optionVars
    \/ StartAndroid /\ UNCHANGED optionVars
    \/ StartOther /\ UNCHANGED optionVars
    \/ \E ok \in BOOLEAN : ExecSettled(ok) /\ UNCHANGED optionVars
    \/ ListenCallback /\ UNCHANGED optionVars
    \/ \E didHaveIssues \in BOOLEAN :
         OnBuildStart(didHaveIssues) /\ UNCHANGED optionVars
    \/ \E hasErrors \in BOOLEAN :
         OnBuildComplete(hasErrors) /\ UNCHANGED optionVars

Spec == Init /\ [][Next]_vars

\* The option table alone: every command line, resolved option by option.
InitOptions ==
    /\ argv \in Argvs
    /\ flags = NoFlags
    /\ raws = NoFlags
    /\ optIdx = 1
    /\ cwd = "/app"
    /\ files = {}
    /\ opts = [host |-> "127.0.0.1", port |-> 8081, dev |-> TRUE,
               minify |-> FALSE, platform |-> "all"]
    /\ rnResult = [configs |-> <<>>, platforms |-> <<>>]
    /\ throwsAt = "none"
    /\ pc = "cli"
    /\ promise = "none"
    /\ error = NoError
    /\ config = Undefined
    /\ adb = <<>>
    /\ effects = <<>>
    /\ listening = FALSE
    /\ builds = 0
    /\ execResult = "none"
    /\ lastEvent = Event("none", "")

NextOptions == ResolveOption /\ UNCHANGED launchVars

SpecOptions == InitOptions /\ [][NextOptions]_vars

(***************************************************************************)
(* Properties.                                                             *)
(***************************************************************************)
\* Positions in `effects` of the calls of one kind, and of the logs of one
\* message.
Positions(kind) == { i \in DOMAIN effects : effects[i].kind = kind }
Logs(name) ==
    { i \in DOMAIN effects : effects[i].kind = "log" /\ effects[i].name = name }
BuildLogs == Logs("bundleBuilding") \cup Logs("bundleFailed") \cup Logs("bundleBuilt")
ForwardLogs == Logs("commandSuccess") \cup Logs("commandFailed")
RequestedInList ==
    \E k \in DOMAIN rnResult.platforms : rnResult.platforms[k] = opts.platform

\* C1: for a requested platform other than "all" that is in the platform
\* list, webpack receives exactly configs[i], i the (first) index of the
\* platform in the list, and not the list.
C1_SingleConfigPassed ==
    \A w \in Positions("webpack") :
        (opts.platform # "all" /\ RequestedInList) =>
            \E k \in DOMAIN rnResult.platforms :
                /\ rnResult.platforms[k] = opts.platform
                /\ \A j \in 1..(k - 1) : rnResult.platforms[j] # opts.platform
                /\ ~effects[w].config.isArray
                /\ effects[w].config.value = rnResult.configs[k]

\* C1's case: the second of two different configurations is selected.
C1_Witness ==
    /\ Positions("webpack") # {}
    /\ opts.platform = "android"
    /\ rnResult.platforms = <<"ios", "android">>
    /\ rnResult.configs[1] # rnResult.configs[2]
    /\ pc = "returned"

\* C2: for "all", or a platform that is not in the list, webpack receives
\* the whole configuration list as makeReactNativeConfig returned it, and
\* start() does not fail for that reason.
C2_FullConfigPassed ==
    (opts.platform = "all" \/ ~RequestedInList) =>
        /\ \A w \in Positions("webpack") :
               /\ effects[w].config.isArray
               /\ effects[w].config.value = rnResult.configs
        /\ pc = "threw" =>
               \/ error.type = "MessageError" /\ ~(cwd \o "/webpack.haul.js" \in files)
               \/ error.type = "Error" /\ error.name = throwsAt /\ throwsAt # "none"

\* C2's case: ios is requested, the list holds android only, the launch
\* went through with the whole list.
C2_Witness ==
    /\ opts.platform = "ios"
    /\ rnResult.platforms = <<"android", "android">>
    /\ rnResult.configs[1] # rnResult.configs[2]
    /\ Positions("webpack") # {}
    /\ promise = "fulfilled"

\* C3: without webpack.haul.js in the working directory start() fails with
\* a MessageError naming that directory, and nothing at all was called.
C3_ConfigNotFound ==
    (pc # "ready" /\ ~(cwd \o "/webpack.haul.js" \in files)) =>
        /\ pc = "threw"
        /\ promise = "rejected"
        /\ error.type = "MessageError"
        /\ error.name = "webpackConfigNotFound"
        /\ error.directory = cwd
        /\ effects = <<>>
        /\ ~listening
        /\ builds = 0
        /\ execResult = "none"

\* C3's case: a configuration file exists, but not in the working directory.
C3_Witness ==
    /\ pc = "threw"
    /\ cwd = "/srv"
    /\ files # {}
    /\ opts.platform = "android"
    /\ throwsAt = "none"

\* C4: once the device-forward command has settled, its result was logged
\* once (warn on failure, info on success), nothing was thrown, and listen
\* was called on (port, host) right after that log.
C4_ForwardFailureSwallowed ==
    execResult \in {"ok", "failed"} =>
        /\ pc = "returned"
        /\ promise # "rejected"
        /\ error = NoError
        /\ Cardinality(ForwardLogs) = 1
        /\ Cardinality(Positions("listen")) = 1
        /\ \A f \in ForwardLogs :
               /\ effects[f].level = IF execResult = "failed" THEN "warn" ELSE "info"
               /\ effects[f].name =
                    IF execResult = "failed" THEN "commandFailed" ELSE "commandSuccess"
               /\ \A l \in Positions("listen") :
                      /\ l = f + 1
                      /\ effects[l].port = opts.port
                      /\ effects[l].host = opts.host

\* C4's case: the command failed and listen was called all the same.
C4_Witness ==
    /\ execResult = "failed"
    /\ Positions("listen") # {}
    /\ Logs("commandFailed") # {}

\* C5 as claimed: the promise of start() is fulfilled only once the listen
\* callback has fired, and a rejected one was rejected before listen.
C5_ResolvesOnceListening ==
    /\ promise = "fulfilled" => listening
    /\ promise = "rejected" => Positions("listen") = {}

\* C5 as amended: the promise is fulfilled as soon as listen has been
\* called, whether or not the listen callback has fired; it is pending only
\* while exec is awaited, and a rejected one was rejected before listen.
C5_ResolvesOnListenCall ==
    /\ promise = "fulfilled" <=> Positions("listen") # {}
    /\ promise = "pending" <=> execResult = "pending"
    /\ promise = "rejected" => Positions("listen") = {} /\ ~listening
    /\ listening => promise = "fulfilled"

\* C5's case: fulfilled, and the server is not listening yet.
C5_Witness ==
    /\ promise = "fulfilled"
    /\ ~listening
    /\ builds = 2

\* C6: when --minify is not given, the string handed to its parse is
\* "false" for dev = true and "true" for dev = false, and the parsed minify
\* is the negation of the parsed dev, dev being false for "false" only.
C6_MinifyDefaultNegatesDev ==
    (optIdx > 4 /\ argv.minify = NotGiven) =>
        LET devRaw == IF argv.dev = NotGiven THEN "true" ELSE argv.dev
            devParsed == devRaw # "false"
        IN /\ flags.dev = devParsed
           /\ raws.minify = IF devParsed THEN "false" ELSE "true"
           /\ flags.minify = ~devParsed

\* C6's case: --dev false and no --minify resolve to minify = true.
C6_Witness ==
    /\ optIdx > 4
    /\ argv.minify = NotGiven
    /\ argv.dev = "false"
    /\ flags.minify = TRUE

\* C7: the startup summary is logged exactly when the listen callback
\* fires, once; its entries are those of the configuration webpack received
\* (one per configuration of a list, in order; a singleton for a single
\* configuration), its host and port those of the options.
C7_StartupSummary ==
    /\ Logs("initialStartInformation") # {} <=> listening
    /\ Cardinality(Logs("initialStartInformation")) <= 1
    /\ \A i \in Logs("initialStartInformation") :
           /\ lastEvent.kind = "listening" => i = Len(effects)
           /\ \E w \in Positions("webpack"), l \in Positions("listen") :
                  /\ w < l
                  /\ l < i
                  /\ LET passed == effects[w].config
                         entries == effects[i].data.entries
                     IN IF passed.isArray
                        THEN /\ Len(entries) = Len(passed.value)
                             /\ \A k \in DOMAIN entries :
                                    entries[k] = passed.value[k].entry
                        ELSE entries = <<passed.value.entry>>
           /\ effects[i].data.host = opts.host
           /\ effects[i].data.port = opts.port
           /\ effects[i].level = "info"

\* C7's case: platform "all" with two configurations, two entries logged.
C7_Witness ==
    /\ listening
    /\ opts.platform = "all"
    /\ Len(rnResult.configs) = 2
    /\ rnResult.configs[1] # rnResult.configs[2]
    /\ \E i \in Logs("initialStartInformation") : Len(effects[i].data.entries) = 2

\* C8: the device-forward command is executed exactly for platform
\* "android", at most once, after webpack and createServer and before
\* listen, with the arguments `reverse tcp:<port> tcp:<port>`.
C8_AdbReverseOnlyForAndroid ==
    /\ Positions("exec") # {} => opts.platform = "android"
    /\ pc \in {"awaitExec", "returned"} =>
           (opts.platform = "android" <=> Cardinality(Positions("exec")) = 1)
    /\ Cardinality(Positions("exec")) <= 1
    /\ \A e \in Positions("exec") :
           /\ \E w \in Positions("webpack"), c \in Positions("createServer") :
                  w < c /\ c < e
           /\ \A l \in Positions("listen") : e < l
           /\ \E bin \in {"adb", "/opt/sdk/platform-tools/adb"} :
                  effects[e].command =
                      bin \o " reverse tcp:" \o ToString(opts.port)
                          \o " tcp:" \o ToString(opts.port)

\* C8's case: android is requested and is not in the platform list; the
\* command ran for port 3000 and listen followed.
C8_Witness ==
    /\ opts.platform = "android"
    /\ ~RequestedInList
    /\ opts.port = 3000
    /\ Positions("exec") # {}
    /\ Positions("listen") # {}

\* C9 as claimed: every log is preceded by a clear with no other log in
\* between, and every build callback clears and then logs one message.
C9_EveryLogAfterClear ==
    /\ \A i \in Positions("log") :
           \E j \in 1..(i - 1) :
               /\ effects[j].kind = "clear"
               /\ \A k \in (j + 1)..(i - 1) : effects[k].kind # "log"
    /\ \A i \in BuildLogs : i > 1 /\ effects[i - 1].kind = "clear"
    /\ Cardinality(BuildLogs) = builds

\* C9 as amended: the console is cleared once right before webpack is
\* called and once at the start of every build callback, and nowhere else;
\* every build callback clears and then logs exactly one message (warn if
\* the previous build had issues else info; error if the stats report
\* errors else done).
C9_BuildLogsAfterClear ==
    /\ \A w \in Positions("webpack") : w > 1 /\ effects[w - 1].kind = "clear"
    /\ Cardinality(Positions("clear")) = Cardinality(Positions("webpack")) + builds
    /\ Cardinality(BuildLogs) = builds
    /\ \A i \in BuildLogs : i > 1 /\ effects[i - 1].kind = "clear"
    /\ \A i \in Logs("bundleBuilding") :
           effects[i].level = IF effects[i].data THEN "warn" ELSE "info"
    /\ \A i \in Logs("bundleFailed") : effects[i].level = "error"
    /\ \A i \in Logs("bundleBuilt") :
           effects[i].level = "done" /\ effects[i].data = opts.platform
    /\ lastEvent.kind = "buildStart" =>
           /\ Len(effects) \in Logs("bundleBuilding")
           /\ effects[Len(effects)].data = lastEvent.arg
    /\ lastEvent.kind = "buildComplete" =>
           Len(effects) \in (IF lastEvent.arg THEN Logs("bundleFailed")
                             ELSE Logs("bundleBuilt"))

\* C9's case: two build callbacks fired, and the startup summary was
\* logged right after a build log, with no clear of its own.
C9_Witness ==
    /\ builds = 2
    /\ \E i \in Logs("initialStartInformation") : i - 1 \in BuildLogs
    /\ Logs("bundleBuilding") # {}
    /\ Logs("bundleFailed") # {}

\* C10: start() suspends only at the await of the device-forward command.
\* For a platform other than android, webpack, createServer and listen are
\* called back to back and the promise is never pending; for android, what
\* the build callbacks do before listen lies between the exec call and the
\* log of its result, and listen directly follows that log.
C10_SingleSuspensionPoint ==
    /\ opts.platform # "android" =>
           /\ pc # "awaitExec"
           /\ promise # "pending"
           /\ \A w \in Positions("webpack") :
                  pc = "returned" =>
                      /\ effects[w + 1].kind = "createServer"
                      /\ effects[w + 2].kind = "listen"
    /\ opts.platform = "android" =>
           /\ \A w \in Positions("webpack") :
                  pc # "threw" =>
                      /\ effects[w + 1].kind = "createServer"
                      /\ effects[w + 2].kind = "exec"
           /\ \A l \in Positions("listen") :
                  /\ execResult \in {"ok", "failed"}
                  /\ l - 1 \in ForwardLogs
           /\ \A b \in BuildLogs, l \in Positions("listen") :
                  b < l => \E e \in Positions("exec"), f \in ForwardLogs :
                               e < b - 1 /\ b < f

\* C10's case: android, and a build callback ran while exec was awaited.
C10_Witness ==
    /\ opts.platform = "android"
    /\ Positions("listen") # {}
    /\ \E b \in BuildLogs, l \in Positions("listen") : b < l

====
